---- MODULE Spec2Model ----
\* Verification model of the kvitta-ui receipt client: the useReceiptUpdate
\* retry hook, the axios response interceptor that turns HTTP 409 into
\* ReceiptVersionConflictError, and the versioned receipt store both talk to.
EXTENDS Integers, Sequences, FiniteSets, TLC

\* ---------------------------------------------------------------- bounds
MaxDepth == 3          \* deepest nesting of recursive updateWithRetry frames explored
MaxVersion == 2        \* other writers stop bumping a receipt at this version
MaxMaxRetries == 2     \* largest maxRetries option explored
MaxDepthConcurrent == 1 \* the same, while two calls overlap

\* ------------------------------------------------------------- constants
DefaultMaxRetries == 3 \* const { maxRetries = 3, onConflict } = options
Undefined == -1        \* a field that is absent from a response body
NoStatus == 0          \* an error without error.response
Status401 == 401
Status409 == 409
Status500 == 500
SESSION_TIMEOUT == 2        \* 30 * 60 * 1000 ms, in quarters of an hour
REMEMBER_ME_TIMEOUT == 672  \* 7 * 24 * 60 * 60 * 1000 ms, in quarters of an hour

Calls == {"a", "b"}            \* "a" is the first call made on the hook instance, "b" the second
Receipts == {"r1", "r2"}

\* ------------------------------------------------------------ error values
\* Every thrown value has the same shape:
\*   class    "ReceiptVersionConflictError" | "AxiosError" | "Object" | "Error" | "null"
\*   isError  value instanceof Error
\*   status   error.response?.status
\*   previousVersion, currentVersion   conflict fields / response body fields
\*   message  <<text, n, m>>
Null ==
  [class |-> "null", isError |-> FALSE, status |-> NoStatus,
   previousVersion |-> Undefined, currentVersion |-> Undefined,
   message |-> <<"", 0, 0>>]

\* new ReceiptVersionConflictError(previousVersion, currentVersion)
ReceiptVersionConflictError(p, c) ==
  [class |-> "ReceiptVersionConflictError", isError |-> TRUE, status |-> NoStatus,
   previousVersion |-> p, currentVersion |-> c,
   message |-> <<"Version conflict: expected, got", p, c>>]

\* The error object axios hands to the rejected handler. cls "AxiosError" is an
\* Error instance, cls "Object" a plain object such as the tests pass in.
TransportError(cls, st, p, c) ==
  [class |-> cls, isError |-> (cls = "AxiosError"), status |-> st,
   previousVersion |-> p, currentVersion |-> c,
   message |-> <<"Request failed with status", st, 0>>]

\* String(err) of a value that is not an Error instance
StringOf(err) == <<"[object Object]", 0, 0>>

\* new Error(String(err))
NewError(msg) ==
  [class |-> "Error", isError |-> TRUE, status |-> NoStatus,
   previousVersion |-> Undefined, currentVersion |-> Undefined,
   message |-> msg]

\* err instanceof Error ? err : new Error(String(err))
Normalise(err) == IF err.isError THEN err ELSE NewError(StringOf(err))

\* new Error(`Max retries (${maxRetries}) exceeded`)
MaxRetriesError(n) == NewError(<<"Max retries exceeded", n, 0>>)

IsConflict(err) == err.class = "ReceiptVersionConflictError"

\* --------------------------------------------------- response interceptor
\* Mutant of HasVersionPayload: a truthiness test, which drops version 0.
HasVersionPayloadTruthy(error) ==
  /\ error.previousVersion \notin {Undefined, 0}
  /\ error.currentVersion \notin {Undefined, 0}

\* error.response?.status === 409 with both body fields !== undefined
HasVersionPayload(error) ==
  /\ error.previousVersion # Undefined
  /\ error.currentVersion # Undefined

\* Mutant of rejected: every 409 becomes a conflict error, payload or not.
rejectedAny409(error) ==
  IF error.status = Status409
  THEN ReceiptVersionConflictError(error.previousVersion, error.currentVersion)
  ELSE error

\* The value the rejected handler rejects with.
rejected(error) ==
  IF error.status = Status409 /\ HasVersionPayload(error)
  THEN ReceiptVersionConflictError(error.previousVersion, error.currentVersion)
  ELSE error

\* Mutant of TokenAfterRejected: localStorage.removeItem is missing.
TokenAfterRejectedKept(error, win, tok) == tok

\* localStorage access_token after the rejected handler ran
TokenAfterRejected(error, win, tok) ==
  IF error.status = Status401 /\ win THEN "none" ELSE tok

\* window.location.href after the rejected handler ran
HrefAfterRejected(error, win, h) ==
  IF error.status = Status401 /\ win THEN "/login" ELSE h

\* ------------------------------------------------------------------ state
VARIABLES
  version,        \* receipt id -> stored version (the store's counter)
  calls,          \* the updateWithRetry calls the component makes on this hook instance
  maxRetries,     \* hook option
  hasOnConflict,  \* hook option onConflict was supplied
  loading,        \* useState(false)
  error,          \* useState<Error | null>(null)
  mounted,        \* the component that owns the hook is still mounted
  pc,             \* call -> position of the running updateWithRetry frame
  updateFn,       \* call -> which function the running frame invokes
  givenCb,        \* call -> the caller passed onVersionConflict
  retries,        \* call -> the running frame's local `retries`
  depth,          \* call -> number of suspended outer frames
  settled,        \* call -> how the awaited updateFn() promise settled
  outcome,        \* call -> how the updateWithRetry promise settled / value in flight
  trace,          \* call -> events of the call, in order
  obs,            \* call -> the settlements the call has observed, in order
  receiptId,      \* call -> receipt the call's closures are bound to
  boundVersion,   \* call -> version captured in the mutator's closure
  accepted,       \* call -> number of PATCHes of this call the store accepted
  access_token,   \* localStorage access_token ("none" when absent)
  href,           \* window.location.href
  hasWindow,      \* typeof window !== "undefined"
  ierror,         \* the error handed to the response interceptor (interceptor run)
  ipc,            \* "idle" | "pending" | "rejected"
  rejection,      \* the value the rejected handler rejected with
  config,         \* the request config handed to the request interceptor
  configOut,      \* the config the request interceptor returned
  rpc,            \* "idle" | "pending" | "done"
  storageReads,   \* number of localStorage.getItem calls the request interceptor made
  status,         \* receipt id -> "draft" | "finalized" (the store)
  content,        \* receipt id -> the receipt's editable data (the store)
  entries,        \* entry id -> ledger entry held by the store (NoEntry when absent)
  shown,          \* entry id -> LedgerExample's `entries` state (NoEntry when not listed)
  ledgerLoading,  \* LedgerExample's `loading` state
  ledgerError,    \* LedgerExample's `error` state ("none" for null)
  inflight,       \* the settle request LedgerExample is awaiting (NoRequest when none)
  lastCall,       \* the latest updateReceipt / settleLedgerEntry call made outside the
                  \* hook, and how it ended; tick flips on every such call
  balance,        \* LedgerExample's `balance` state (NoBalance for null)
  splitMap,       \* ReceiptSplitter's `splitMap` state: item key -> list of emails
  selectedItems,  \* ReceiptSplitter's `selectedItems` state
  members,        \* ReceiptSplitter's `members` prop (the group's member emails)
  user,           \* AuthProvider's `user` state ("none" for null)
  remember_me,    \* localStorage remember_me ("none" when absent)
  last_activity,  \* localStorage last_activity (NoTime when absent)
  timers,         \* the pending setTimeout timers: timer id -> time it is due
  sessionTimeout, \* AuthProvider's `sessionTimeout` state (NoTimer for null)
  boundTimeout,   \* the `sessionTimeout` captured by the registered handleActivity
  nextTimer,      \* the id the next setTimeout returns
  now,            \* Date.now()
  authEvent       \* the latest AuthProvider step and what it found

hookVars == <<calls, maxRetries, hasOnConflict, loading, error, mounted, pc, updateFn,
              givenCb, retries, depth, settled, outcome, trace, obs, receiptId,
              boundVersion, accepted>>
browserVars == <<access_token, href, hasWindow>>
interceptVars == <<ierror, ipc, rejection>>
requestVars == <<config, configOut, rpc, storageReads>>
receiptVars == <<status, content>>
ledgerVars == <<entries, shown, ledgerLoading, ledgerError, inflight, lastCall>>
splitVars == <<splitMap, selectedItems, members>>
authVars == <<user, remember_me, last_activity, timers, sessionTimeout, boundTimeout,
              nextTimer, now, authEvent>>
uiVars == <<balance, splitVars, authVars>>
vars == <<version, hookVars, browserVars, interceptVars, requestVars, uiVars, receiptVars,
          ledgerVars>>

\* ------------------------------------------------------- promise settlements
Pending == [state |-> "pending", via |-> "none", version |-> 0, err |-> Null]
Fulfilled(via, v) == [state |-> "fulfilled", via |-> via, version |-> v, err |-> Null]
Rejected(err) == [state |-> "rejected", via |-> "none", version |-> 0, err |-> err]

\* The errors the transport may fail any request with, whatever the store does.
Faults ==
  { TransportError("AxiosError", Status500, Undefined, Undefined),
    TransportError("Object", Status500, Undefined, Undefined),
    TransportError("AxiosError", Status409, 0, 1) }

\* ---------------------------------------------------- request interceptor
\* `Bearer ${token}`
Bearer(tok) == "Bearer " \o tok

\* A request config as the api wrappers build it: no Authorization header yet.
RequestConfig(url) == [Authorization |-> "unset", url |-> url]

\* Mutant of TokenRead: the typeof window test is missing.
TokenReadNoGuard(win, tok) == tok

\* typeof window !== "undefined" ? localStorage.getItem("access_token") : null
TokenRead(win, tok) == IF win THEN tok ELSE "none"

\* if (token) { config.headers.Authorization = `Bearer ${token}`; } return config;
ConfigAfterRequest(cfg, win, tok) ==
  IF TokenRead(win, tok) # "none"
  THEN [cfg EXCEPT !.Authorization = Bearer(TokenRead(win, tok))]
  ELSE cfg

\* localStorage.getItem is evaluated only in the window branch of the ternary.
StorageReadsAfter(win, n) == IF win THEN n + 1 ELSE n

RequestIdle ==
  /\ config = RequestConfig("/")
  /\ configOut = RequestConfig("/")
  /\ rpc = "idle"
  /\ storageReads = 0

\* ----------------------------------------------------------- receipts, ledger
\* Largest amount_cents of a generated ledger entry.
MaxAmount == 2
\* Largest stored version the receipt operations of the ledger run may produce.
MaxStoredVersion == 3
\* The session run: latest time reached, and number of timers ever set.
MaxTime == 4
MaxTimers == 4

Users == {"alice", "bob"}
\* One ledger entry per (debtor, creditor) pair of a receipt.
Pairs == {<<"alice", "bob">>, <<"bob", "alice">>}
EntryIds == Receipts \X Pairs
\* The receipts the ledger operations are exercised on.
LedgerReceipts == {"r1"}

\* A JavaScript number that is a whole or a half: num / den with den in {1, 2}.
Whole(n) == [num |-> n, den |-> 1]
HalfOf(n) == [num |-> n, den |-> 2]
IsInteger(q) == q.num % q.den = 0
IsPositive(q) == q.num > 0
Floor(q) == q.num \div q.den
Ceil(q) == IF IsInteger(q) THEN Floor(q) ELSE Floor(q) + 1

\* LedgerStatus as a function of settled_amount_cents and amount_cents.
StatusOf(s, a) ==
  IF s = a THEN "settled" ELSE IF s = 0 THEN "pending" ELSE "partially_settled"

NoEntry == [receipt_id |-> "none", debtor_id |-> "none", creditor_id |-> "none",
            amount_cents |-> 0, settled_amount_cents |-> 0, status |-> "none"]
NewEntry(r, pr, a) ==
  [receipt_id |-> r, debtor_id |-> pr[1], creditor_id |-> pr[2],
   amount_cents |-> a, settled_amount_cents |-> 0, status |-> StatusOf(0, a)]
Exists(en) == en # NoEntry

NoRequest == [op |-> "none", receipt |-> "none",
              entry |-> <<"none", <<"none", "none">>>>, amount |-> Whole(0),
              user |-> "none"]
NoBatch == [pr \in Pairs |-> 0]
NoCall == [op |-> "none", receipt |-> "none", expected |-> 0,
           entry |-> <<"none", <<"none", "none">>>>, amount |-> Whole(0),
           via |-> "none", ok |-> FALSE, tick |-> 0, count |-> 0, batch |-> NoBatch]

ReceiptsIdle ==
  /\ status = [r \in Receipts |-> "draft"]
  /\ content = [r \in Receipts |-> "initial"]

LedgerIdle ==
  /\ entries = [e \in EntryIds |-> NoEntry]
  /\ shown = [e \in EntryIds |-> NoEntry]
  /\ ledgerLoading = FALSE
  /\ ledgerError = "none"
  /\ inflight = NoRequest
  /\ lastCall = NoCall

\* useState<UserBalance | null>(null)
NoBalance == [user_id |-> "none", owes_cents |-> 0, is_owed_cents |-> 0, net_cents |-> 0]

\* useState<NodeJS.Timeout | null>(null): no timer handle
NoTimer == 0
\* localStorage.getItem("last_activity") === null
NoTime == -1
NoAuthEvent == [op |-> "none", idle |-> 0, timeout |-> 0, loggedIn |-> FALSE]

BalanceIdle == balance = NoBalance

SplitterIdle ==
  /\ splitMap = <<>>
  /\ selectedItems = {}
  /\ members = {}

AuthIdle ==
  /\ user = "none"
  /\ remember_me = "none"
  /\ last_activity = NoTime
  /\ timers = {}
  /\ sessionTimeout = NoTimer
  /\ boundTimeout = NoTimer
  /\ nextTimer = 1
  /\ now = 0
  /\ authEvent = NoAuthEvent

UiIdle == BalanceIdle /\ SplitterIdle /\ AuthIdle

\* ------------------------------------------------------------------- Init
HookIdle ==
  /\ loading = FALSE
  /\ error = Null
  /\ mounted = TRUE
  /\ pc = [c \in Calls |-> "idle"]
  /\ updateFn = [c \in Calls |-> "none"]
  /\ givenCb = [c \in Calls |-> FALSE]
  /\ retries = [c \in Calls |-> 0]
  /\ depth = [c \in Calls |-> 0]
  /\ settled = [c \in Calls |-> Pending]
  /\ outcome = [c \in Calls |-> Pending]
  /\ trace = [c \in Calls |-> <<>>]
  /\ obs = [c \in Calls |-> <<>>]
  /\ receiptId = [c \in Calls |-> "r1"]
  /\ boundVersion = [c \in Calls |-> 1]
  /\ accepted = [c \in Calls |-> 0]

InitWith(cs) ==
  /\ calls = cs
  /\ version = [r \in Receipts |-> 1]
  /\ maxRetries \in 0..MaxMaxRetries
  /\ hasOnConflict \in BOOLEAN
  /\ HookIdle
  /\ access_token = "abc"
  /\ href = "/"
  /\ hasWindow = TRUE
  /\ ierror = Null
  /\ ipc = "idle"
  /\ rejection = Null
  /\ RequestIdle
  /\ ReceiptsIdle
  /\ LedgerIdle
  /\ UiIdle

\* One updateWithRetry call at a time.
Init == InitWith({"a"})

\* Two calls that may overlap.
InitConcurrent == InitWith(Calls)

\* ------------------------------------------------------------ useReceiptUpdate
\* Mutant of RetriesSeen: `retries` kept in one counter shared by every call.
RetriesSeenShared(c) == retries["a"] + retries["b"]

\* The value of `retries` the catch block compares with maxRetries - 1.
RetriesSeen(c) == retries[c]

\* Mutant of CanRetry: the instanceof test is missing, every error is retried.
CanRetryAnyError(c, err) == RetriesSeen(c) < maxRetries - 1

\* err instanceof ReceiptVersionConflictError && retries < maxRetries - 1
CanRetry(c, err) == IsConflict(err) /\ RetriesSeen(c) < maxRetries - 1

\* if (onVersionConflict): the recursive frames always receive the callback
HasVersionConflictCb(c) == depth[c] > 0 \/ givenCb[c]

\* Deepest frame explored.
DepthCap == IF Cardinality(calls) = 1 THEN MaxDepth ELSE MaxDepthConcurrent

\* updateWithRetry(updateFn, onVersionConflict) called by the component:
\* setLoading(true); setError(null); let retries = 0; then the first loop test.
updateWithRetry(c, r, v, cb) ==
  /\ mounted
  /\ pc[c] = "idle"
  /\ c = "b" => pc["a"] # "idle"
  /\ c = "a" => r = "r1"
  /\ receiptId' = [receiptId EXCEPT ![c] = r]
  /\ boundVersion' = [boundVersion EXCEPT ![c] = v]
  /\ givenCb' = [givenCb EXCEPT ![c] = cb]
  /\ retries' = [retries EXCEPT ![c] = 0]
  /\ IF 0 < maxRetries
     THEN /\ loading' = TRUE
          /\ error' = Null
          /\ pc' = [pc EXCEPT ![c] = "awaitUpdate"]
          /\ updateFn' = [updateFn EXCEPT ![c] = "mutator"]
          /\ trace' = [trace EXCEPT ![c] = Append(@, "updateFn:mutator")]
          /\ UNCHANGED outcome
     ELSE /\ loading' = FALSE
          /\ error' = MaxRetriesError(maxRetries)
          /\ pc' = [pc EXCEPT ![c] = "done"]
          /\ outcome' = [outcome EXCEPT ![c] = Rejected(MaxRetriesError(maxRetries))]
          /\ UNCHANGED <<updateFn, trace>>
  /\ UNCHANGED <<version, calls, maxRetries, hasOnConflict, mounted, depth, settled, obs,
                 accepted, browserVars, interceptVars, requestVars, uiVars, receiptVars, ledgerVars>>

\* The awaited promise of the running frame settles with s.
Settle(c, s) ==
  /\ settled' = [settled EXCEPT ![c] = s]
  /\ obs' = [obs EXCEPT ![c] = Append(@, s)]
  /\ trace' = [trace EXCEPT ![c] = Append(@,
        IF s.state = "fulfilled" THEN "settled:ok"
        ELSE IF IsConflict(s.err) THEN "settled:conflict" ELSE "settled:error")]
  /\ pc' = [pc EXCEPT ![c] = "settled"]

\* Mutant of StoreAccepts: last write wins, a stale version is accepted too.
StoreAcceptsStale(r, e) == status[r] = "draft" /\ e <= version[r]

\* The store's compare-and-swap: an update is accepted iff the receipt is a
\* draft and the version the update carries is the stored one.
StoreAccepts(r, e) == status[r] = "draft" /\ version[r] = e

\* Mutant of StoreVersionAfter: an accepted update skips a version.
StoreVersionAfterSkips(r, e) == IF StoreAccepts(r, e) THEN version[r] + 2 ELSE version[r]

\* The stored version after the store handled an update carrying version e.
StoreVersionAfter(r, e) == IF StoreAccepts(r, e) THEN version[r] + 1 ELSE version[r]

\* Mutant of StoreContentAfter: the data is written whatever the receipt's status.
StoreContentAfterAnyStatus(r, e, p) == IF version[r] = e THEN p ELSE content[r]

\* The stored data after the store handled an update carrying version e and data p.
StoreContentAfter(r, e, p) == IF StoreAccepts(r, e) THEN p ELSE content[r]

\* The store's answer to a stale update: 409 { previousVersion, currentVersion }.
StoreConflict(r, e) == TransportError("AxiosError", Status409, e, version[r])

\* updateReceipt(id, { version, ... }): PATCH /receipts/{id}, handled by the store;
\* a failure response passes through the response interceptor.
updateReceipt(c) ==
  /\ pc[c] = "awaitUpdate"
  /\ updateFn[c] = "mutator"
  /\ LET r == receiptId[c]
         e == boundVersion[c]
     IN /\ IF StoreAccepts(r, e)
           THEN /\ accepted' = [accepted EXCEPT ![c] = @ + 1]
                /\ Settle(c, Fulfilled("PATCH", StoreVersionAfter(r, e)))
           ELSE /\ Settle(c, Rejected(rejected(StoreConflict(r, e))))
                /\ UNCHANGED accepted
        /\ version' = [version EXCEPT ![r] = StoreVersionAfter(r, e)]
        /\ content' = [content EXCEPT ![r] = StoreContentAfter(r, e, "ours")]
  /\ UNCHANGED <<calls, maxRetries, hasOnConflict, loading, error, mounted, updateFn, givenCb,
                 retries, depth, outcome, receiptId, boundVersion, browserVars,
                 interceptVars, requestVars, uiVars, status, ledgerVars>>

\* getReceipt(id): GET /receipts/{id}, answered with the stored receipt.
getReceipt(c) ==
  /\ pc[c] = "awaitUpdate"
  /\ updateFn[c] = "refetcher"
  /\ Settle(c, Fulfilled("GET", version[receiptId[c]]))
  /\ UNCHANGED <<version, calls, maxRetries, hasOnConflict, loading, error, mounted, updateFn,
                 givenCb, retries, depth, outcome, receiptId, boundVersion, accepted,
                 browserVars, interceptVars, requestVars, uiVars, receiptVars, ledgerVars>>

\* The request fails in transport with f; the response interceptor runs on it.
RequestFails(c, f) ==
  /\ pc[c] = "awaitUpdate"
  /\ Settle(c, Rejected(rejected(f)))
  /\ access_token' = TokenAfterRejected(f, hasWindow, access_token)
  /\ href' = HrefAfterRejected(f, hasWindow, href)
  /\ UNCHANGED <<version, calls, maxRetries, hasOnConflict, loading, error, mounted, updateFn,
                 givenCb, retries, depth, outcome, receiptId, boundVersion, accepted,
                 hasWindow, interceptVars, requestVars, uiVars, receiptVars, ledgerVars>>

\* Mutant of ReturnResult: the `return` is missing, so the while loop runs
\* updateFn again.
ReturnResultLoops(c) ==
  /\ pc[c] = "settled"
  /\ settled[c].state = "fulfilled"
  /\ loading' = FALSE
  /\ pc' = [pc EXCEPT ![c] = "awaitUpdate"]
  /\ trace' = [trace EXCEPT ![c] = Append(@, "updateFn:" \o updateFn[c])]
  /\ UNCHANGED <<version, calls, maxRetries, hasOnConflict, error, mounted, updateFn,
                 givenCb, retries, depth, settled, outcome, obs, receiptId, boundVersion,
                 accepted, browserVars, interceptVars, requestVars, uiVars, receiptVars, ledgerVars>>

\* try { const result = await updateFn(); setLoading(false); return result; }
ReturnResult(c) ==
  /\ pc[c] = "settled"
  /\ settled[c].state = "fulfilled"
  /\ loading' = FALSE
  /\ outcome' = [outcome EXCEPT ![c] = settled[c]]
  /\ pc' = [pc EXCEPT ![c] = "done"]
  /\ UNCHANGED <<version, calls, maxRetries, hasOnConflict, error, mounted, updateFn, givenCb,
                 retries, depth, settled, trace, obs, receiptId, boundVersion, accepted,
                 browserVars, interceptVars, requestVars, uiVars, receiptVars, ledgerVars>>

\* The events the catch block adds before it decides where to go.
ConflictEvents == IF hasOnConflict THEN <<"onConflict">> ELSE <<>>

\* catch (err): a conflict with budget left and a callback: retries++,
\* onConflict?.(err), then await new Promise(resolve => setTimeout(resolve, 100)).
CatchRetry(c) ==
  /\ pc[c] = "settled"
  /\ settled[c].state = "rejected"
  /\ CanRetry(c, settled[c].err)
  /\ HasVersionConflictCb(c)
  /\ retries' = [retries EXCEPT ![c] = @ + 1]
  /\ trace' = [trace EXCEPT ![c] = @ \o ConflictEvents \o <<"setTimeout">>]
  /\ pc' = [pc EXCEPT ![c] = "delay"]
  /\ UNCHANGED <<version, calls, maxRetries, hasOnConflict, loading, error, mounted, updateFn,
                 givenCb, depth, settled, outcome, obs, receiptId, boundVersion,
                 accepted, browserVars, interceptVars, requestVars, uiVars, receiptVars, ledgerVars>>

\* catch (err), every other case: const errorObj = ...; setError(errorObj);
\* setLoading(false); throw errorObj. A conflict with budget left but no callback
\* still does retries++ and onConflict?.(err) first.
CatchThrow(c) ==
  /\ pc[c] = "settled"
  /\ settled[c].state = "rejected"
  /\ ~(CanRetry(c, settled[c].err) /\ HasVersionConflictCb(c))
  /\ LET err == settled[c].err
         counted == CanRetry(c, err)
         errorObj == Normalise(err)
     IN /\ retries' = [retries EXCEPT ![c] = IF counted THEN @ + 1 ELSE @]
        /\ trace' = [trace EXCEPT ![c] = IF counted THEN @ \o ConflictEvents ELSE @]
        /\ error' = errorObj
        /\ loading' = FALSE
        /\ outcome' = [outcome EXCEPT ![c] = Rejected(errorObj)]
        /\ pc' = [pc EXCEPT ![c] = IF depth[c] = 0 THEN "done" ELSE "unwinding"]
  /\ UNCHANGED <<version, calls, maxRetries, hasOnConflict, mounted, updateFn, givenCb, depth,
                 settled, obs, receiptId, boundVersion, accepted, browserVars,
                 interceptVars, requestVars, uiVars, receiptVars, ledgerVars>>

\* The 100 ms timer fires: return await updateWithRetry(onVersionConflict,
\* onVersionConflict). The new frame runs setLoading(true); setError(null);
\* let retries = 0 and, after the loop test, invokes its updateFn.
TimerFires(c) ==
  /\ pc[c] = "delay"
  /\ depth[c] < DepthCap
  /\ depth' = [depth EXCEPT ![c] = @ + 1]
  /\ retries' = [retries EXCEPT ![c] = 0]
  /\ trace' = [trace EXCEPT ![c] = @ \o <<"timeout">> \o
                  (IF 0 < maxRetries THEN <<"updateFn:refetcher">> ELSE <<>>)]
  /\ IF 0 < maxRetries
     THEN /\ loading' = TRUE
          /\ error' = Null
          /\ updateFn' = [updateFn EXCEPT ![c] = "refetcher"]
          /\ pc' = [pc EXCEPT ![c] = "awaitUpdate"]
          /\ UNCHANGED outcome
     ELSE /\ loading' = FALSE
          /\ error' = MaxRetriesError(maxRetries)
          /\ outcome' = [outcome EXCEPT ![c] = Rejected(MaxRetriesError(maxRetries))]
          /\ pc' = [pc EXCEPT ![c] = "unwinding"]
          /\ UNCHANGED updateFn
  /\ UNCHANGED <<version, calls, maxRetries, hasOnConflict, mounted, givenCb, settled, obs,
                 receiptId, boundVersion, accepted, browserVars, interceptVars, requestVars, uiVars, receiptVars, ledgerVars>>

\* catch (retryErr) of a suspended frame: setError(...); setLoading(false);
\* throw retryErr.
Unwind(c) ==
  /\ pc[c] = "unwinding"
  /\ error' = Normalise(outcome[c].err)
  /\ loading' = FALSE
  /\ depth' = [depth EXCEPT ![c] = @ - 1]
  /\ pc' = [pc EXCEPT ![c] = IF depth[c] - 1 = 0 THEN "done" ELSE "unwinding"]
  /\ UNCHANGED <<version, calls, maxRetries, hasOnConflict, mounted, updateFn, givenCb, retries,
                 settled, outcome, trace, obs, receiptId, boundVersion, accepted,
                 browserVars, interceptVars, requestVars, uiVars, receiptVars, ledgerVars>>

\* The component that owns the hook unmounts. The hook registers no cleanup.
Unmount ==
  /\ mounted
  /\ mounted' = FALSE
  /\ UNCHANGED <<version, calls, maxRetries, hasOnConflict, loading, error, pc, updateFn,
                 givenCb, retries, depth, settled, outcome, trace, obs, receiptId,
                 boundVersion, accepted, browserVars, interceptVars, requestVars, uiVars, receiptVars, ledgerVars>>

\* Another client's update of receipt r is accepted by the store. Only writes
\* that overlap a call of this client on r are told apart: a write before the
\* call starts is seen by the call exactly as one made while it is in flight.
OtherWriter(r) ==
  /\ version[r] < MaxVersion
  /\ \E c \in calls : receiptId[c] = r /\ pc[c] \notin {"idle", "done"}
  /\ version' = [version EXCEPT ![r] = StoreVersionAfter(r, version[r])]
  /\ content' = [content EXCEPT ![r] = StoreContentAfter(r, version[r], "theirs")]
  /\ UNCHANGED <<hookVars, browserVars, interceptVars, requestVars, uiVars, status, ledgerVars>>

Next ==
  \/ \E c \in calls, r \in Receipts, cb \in BOOLEAN :
       \E v \in 1..version[r] : updateWithRetry(c, r, v, cb)
  \/ \E c \in calls : updateReceipt(c)
  \/ \E c \in calls : getReceipt(c)
  \/ \E c \in calls, f \in Faults : RequestFails(c, f)
  \/ \E c \in calls : ReturnResult(c)
  \/ \E c \in calls : CatchRetry(c)
  \/ \E c \in calls : CatchThrow(c)
  \/ \E c \in calls : TimerFires(c)
  \/ \E c \in calls : Unwind(c)
  \/ Unmount
  \/ \E r \in Receipts : OtherWriter(r)

Spec == Init /\ [][Next]_vars

SpecConcurrent == InitConcurrent /\ [][Next]_vars

\* ---------------------------------------------- the response interceptor alone
\* The error objects the rejected handler is run on: Error instances and plain
\* objects, with and without a response, with every combination of body fields.
InterceptInputs ==
  { TransportError(cls, st, p, c) :
      cls \in {"AxiosError", "Object"},
      st \in {NoStatus, Status401, Status409, Status500},
      p \in {Undefined} \cup (0..MaxVersion),
      c \in {Undefined} \cup (0..MaxVersion) }

InitInterceptor ==
  /\ calls = {}
  /\ version = [r \in Receipts |-> 1]
  /\ maxRetries = DefaultMaxRetries
  /\ hasOnConflict = FALSE
  /\ HookIdle
  /\ access_token \in {"abc", "none"}
  /\ href = "/"
  /\ hasWindow \in BOOLEAN
  /\ ierror \in {e \in InterceptInputs :
                   e.status = NoStatus =>
                     e.previousVersion = Undefined /\ e.currentVersion = Undefined}
  /\ ipc = "pending"
  /\ rejection = Null
  /\ config \in {RequestConfig(u) : u \in {"/receipts", "/ledger"}}
  /\ configOut = RequestConfig("/")
  /\ rpc = "pending"
  /\ storageReads = 0
  /\ ReceiptsIdle
  /\ LedgerIdle
  /\ UiIdle

\* api.interceptors.response.use(..., (error) => { ... }) runs on ierror.
ResponseRejected ==
  /\ ipc = "pending"
  /\ rejection' = rejected(ierror)
  /\ access_token' = TokenAfterRejected(ierror, hasWindow, access_token)
  /\ href' = HrefAfterRejected(ierror, hasWindow, href)
  /\ ipc' = "rejected"
  /\ UNCHANGED <<version, hookVars, hasWindow, ierror, requestVars, uiVars, receiptVars, ledgerVars>>

\* api.interceptors.request.use((config) => { ... }) runs on config.
RequestFulfilled ==
  /\ rpc = "pending"
  /\ configOut' = ConfigAfterRequest(config, hasWindow, access_token)
  /\ storageReads' = StorageReadsAfter(hasWindow, storageReads)
  /\ rpc' = "done"
  /\ UNCHANGED <<version, hookVars, browserVars, interceptVars, config, uiVars, receiptVars, ledgerVars>>

NextInterceptor == ResponseRejected \/ RequestFulfilled

SpecInterceptor == InitInterceptor /\ [][NextInterceptor]_vars

\* ------------------------------------------------------------ ledger engine
\* What a store does with an amount_cents that is not an integer: refuse the
\* request, or take the integer below or above it.
NonIntegerPolicies == {"reject", "floor", "ceil"}
Received(q, pol) == IF pol = "ceil" THEN Ceil(q) ELSE Floor(q)

\* settle(entry, amount): accepted iff the entry exists, the amount is positive
\* and the settled amount does not pass amount_cents.
SettleAccepts(en, q, pol) ==
  /\ Exists(en)
  /\ IsInteger(q) \/ pol # "reject"
  /\ Received(q, pol) > 0
  /\ en.settled_amount_cents + Received(q, pol) <= en.amount_cents

EntryAfterSettle(en, q, pol) ==
  IF SettleAccepts(en, q, pol)
  THEN [en EXCEPT !.settled_amount_cents = @ + Received(q, pol),
                  !.status = StatusOf(en.settled_amount_cents + Received(q, pol),
                                      en.amount_cents)]
  ELSE en

\* The batches generate(receipt) can produce: between two users the net
\* transfer runs one way, so at most one pair gets a positive amount.
Batches ==
  {b \in [Pairs -> 0..MaxAmount] : \A x, y \in Pairs : b[x] > 0 /\ b[y] > 0 => x = y}

\* Mutant of EntriesAfterFinalize: the ledger write is lost.
EntriesAfterFinalizeLost(r, b) == entries

\* generate(receipt): one entry per pair the batch b gives a positive amount.
EntriesAfterFinalize(r, b) ==
  [x \in EntryIds |->
     IF x[1] = r THEN (IF b[x[2]] > 0 THEN NewEntry(r, x[2], b[x[2]]) ELSE NoEntry)
     ELSE entries[x]]

\* Mutant of EntriesAfterUnfinalize: only unsettled entries are deleted.
EntriesAfterUnfinalizeKeepsSettled(r) ==
  [x \in EntryIds |->
     IF x[1] = r /\ entries[x].status # "settled" THEN NoEntry ELSE entries[x]]

\* deleteForReceipt(receipt): every entry of the receipt goes, as one batch.
EntriesAfterUnfinalize(r) ==
  [x \in EntryIds |-> IF x[1] = r THEN NoEntry ELSE entries[x]]

\* deleted_count: the number of entries the receipt has.
DeletedCount(r) == Cardinality({x \in EntryIds : x[1] = r /\ Exists(entries[x])})

\* finalize is accepted on a draft whose transaction commits.
FinalizeAccepts(r, commit) == status[r] = "draft" /\ commit

\* ------------------------------------------------------- ledger API, component
\* Mutant of SettlePayload: the sign of the amount is dropped.
SettlePayloadAbs(q) == [q EXCEPT !.num = IF @ < 0 THEN 0 - @ ELSE @]

\* const payload: SettleRequest = { amount_cents }
SettlePayload(q) == q

\* onClick={() => handleSettleEntry(entry._id, entry.amount_cents / 2)}
SettleHalfAmount(en) == HalfOf(en.amount_cents)

\* disabled={loading || entry.status === "settled"}
SettleHalfEnabled(en) == ~ledgerLoading /\ en.status # "settled"

\* Mutant of ShownAfterSettle: only the settled amount of the listed entry is
\* taken from the response.
ShownAfterSettleAmountOnly(e, updated) ==
  [x \in EntryIds |->
     IF Exists(shown[x]) /\ x = e
     THEN [shown[x] EXCEPT !.settled_amount_cents = updated.settled_amount_cents]
     ELSE shown[x]]

\* entries.map((e) => (e._id === entryId ? updatedEntry : e))
ShownAfterSettle(e, updated) ==
  [x \in EntryIds |-> IF Exists(shown[x]) /\ x = e THEN updated ELSE shown[x]]

\* updateReceipt(id, { version: e, ...p }) called directly, handled by the store.
PatchReceipt(r, e, p) ==
  /\ StoreAccepts(r, e) => version[r] < MaxStoredVersion
  /\ version' = [version EXCEPT ![r] = StoreVersionAfter(r, e)]
  /\ content' = [content EXCEPT ![r] = StoreContentAfter(r, e, p)]
  /\ lastCall' = [NoCall EXCEPT !.tick = 1 - lastCall.tick, !.op = "updateReceipt",
                                 !.receipt = r, !.expected = e,
                                 !.ok = StoreAccepts(r, e)]
  /\ UNCHANGED <<hookVars, browserVars, interceptVars, requestVars, uiVars, status, entries,
                 shown, ledgerLoading, ledgerError, inflight>>

\* finalizeReceipt(id): POST /receipts/{id}/finalize; the store locks the draft
\* and writes the ledger batch b in one transaction, or the call fails (the
\* receipt is not a draft, or the transaction aborts) and nothing is written.
finalizeReceipt(r, b, commit) ==
  /\ FinalizeAccepts(r, commit) => version[r] < MaxStoredVersion
  /\ status' = IF FinalizeAccepts(r, commit)
                THEN [status EXCEPT ![r] = "finalized"] ELSE status
  /\ version' = IF FinalizeAccepts(r, commit)
                 THEN [version EXCEPT ![r] = @ + 1] ELSE version
  /\ entries' = IF FinalizeAccepts(r, commit) THEN EntriesAfterFinalize(r, b) ELSE entries
  /\ lastCall' = [NoCall EXCEPT !.tick = 1 - lastCall.tick, !.op = "finalizeReceipt",
                                 !.receipt = r,
                                 !.batch = IF FinalizeAccepts(r, commit) THEN b ELSE NoBatch,
                                 !.ok = FinalizeAccepts(r, commit)]
  /\ UNCHANGED <<hookVars, browserVars, interceptVars, requestVars, uiVars, content, shown,
                 ledgerLoading, ledgerError, inflight>>

\* unfinalizeReceipt(id): the store reopens the receipt and deletes its entries.
unfinalizeReceipt(r) ==
  /\ status[r] = "finalized"
  /\ version[r] < MaxStoredVersion
  /\ status' = [status EXCEPT ![r] = "draft"]
  /\ version' = [version EXCEPT ![r] = @ + 1]
  /\ entries' = EntriesAfterUnfinalize(r)
  /\ UNCHANGED <<hookVars, browserVars, interceptVars, requestVars, uiVars, content, shown,
                 ledgerLoading, ledgerError, inflight, lastCall>>

\* settleLedgerEntry(entryId, amount_cents) called directly with an integer.
settleLedgerEntry(e, a) ==
  /\ Exists(entries[e])
  /\ entries' = [entries EXCEPT ![e] = EntryAfterSettle(@, SettlePayload(Whole(a)), "reject")]
  /\ lastCall' = [NoCall EXCEPT !.tick = 1 - lastCall.tick, !.op = "settleLedgerEntry",
                                 !.entry = e, !.amount = Whole(a), !.via = "api",
                                 !.ok = SettleAccepts(entries[e], SettlePayload(Whole(a)),
                                                      "reject")]
  /\ UNCHANGED <<version, hookVars, browserVars, interceptVars, requestVars, uiVars, receiptVars,
                 shown, ledgerLoading, ledgerError, inflight>>

\* handleGetLedgerByReceipt up to its await.
handleGetLedgerByReceipt(r) ==
  /\ ~ledgerLoading
  /\ ledgerLoading' = TRUE
  /\ ledgerError' = "none"
  /\ inflight' = [NoRequest EXCEPT !.op = "getLedger", !.receipt = r]
  /\ UNCHANGED <<version, hookVars, browserVars, interceptVars, requestVars, uiVars, receiptVars,
                 entries, shown, lastCall>>

\* GET /ledger/receipt/{id} answers; setEntries(ledgerEntries), setLoading(false).
GetLedgerResponse ==
  /\ inflight.op = "getLedger"
  /\ shown' = [x \in EntryIds |-> IF x[1] = inflight.receipt THEN entries[x] ELSE NoEntry]
  /\ ledgerLoading' = FALSE
  /\ inflight' = NoRequest
  /\ UNCHANGED <<version, hookVars, browserVars, interceptVars, requestVars, uiVars, receiptVars,
                 entries, ledgerError, lastCall>>

\* handleDeleteLedger up to its await.
handleDeleteLedger(r) ==
  /\ ~ledgerLoading
  /\ ledgerLoading' = TRUE
  /\ ledgerError' = "none"
  /\ inflight' = [NoRequest EXCEPT !.op = "deleteLedger", !.receipt = r]
  /\ UNCHANGED <<version, hookVars, browserVars, interceptVars, requestVars, uiVars, receiptVars,
                 entries, shown, lastCall>>

\* DELETE /ledger/receipt/{id} is handled and answered; the rest of
\* handleDeleteLedger. On a finalized receipt the store unfinalizes it; on a
\* draft there is nothing to delete and the store answers 0 or refuses.
DeleteLedgerResponse(refuse) ==
  /\ inflight.op = "deleteLedger"
  /\ LET r == inflight.receipt
         ok == status[r] = "finalized" \/ ~refuse
     IN /\ status[r] = "finalized" => version[r] < MaxStoredVersion
        /\ status' = [status EXCEPT ![r] = "draft"]
        /\ version' = IF status[r] = "finalized"
                       THEN [version EXCEPT ![r] = @ + 1] ELSE version
        /\ entries' = IF status[r] = "finalized" THEN EntriesAfterUnfinalize(r) ELSE entries
        /\ shown' = IF ok THEN [x \in EntryIds |-> NoEntry] ELSE shown
        /\ ledgerError' = IF ok THEN ledgerError ELSE "Failed to delete ledger"
        /\ lastCall' = [NoCall EXCEPT !.tick = 1 - lastCall.tick,
                                       !.op = "deleteLedgerForReceipt", !.receipt = r,
                                       !.count = DeletedCount(r), !.ok = ok]
  /\ ledgerLoading' = FALSE
  /\ inflight' = NoRequest
  /\ UNCHANGED <<hookVars, browserVars, interceptVars, requestVars, uiVars, content>>

\* The Settle Half button of a listed entry: handleSettleEntry up to its await.
handleSettleEntry(e) ==
  /\ Exists(shown[e])
  /\ SettleHalfEnabled(shown[e])
  /\ ledgerLoading' = TRUE
  /\ ledgerError' = "none"
  /\ inflight' = [NoRequest EXCEPT !.op = "settle", !.entry = e,
                                   !.amount = SettleHalfAmount(shown[e])]
  /\ UNCHANGED <<version, hookVars, browserVars, interceptVars, requestVars, uiVars, receiptVars,
                 entries, shown, lastCall>>

\* POST /ledger/{id}/settle is handled and answered; the rest of handleSettleEntry.
SettleResponse(pol) ==
  /\ inflight.op = "settle"
  /\ LET e == inflight.entry
         q == SettlePayload(inflight.amount)
         ok == SettleAccepts(entries[e], q, pol)
         updatedEntry == EntryAfterSettle(entries[e], q, pol)
     IN /\ entries' = [entries EXCEPT ![e] = updatedEntry]
        /\ shown' = IF ok THEN ShownAfterSettle(e, updatedEntry) ELSE shown
        /\ ledgerError' = IF ok THEN ledgerError ELSE "Failed to settle entry"
        /\ lastCall' = [NoCall EXCEPT !.tick = 1 - lastCall.tick,
                                       !.op = "settleLedgerEntry", !.entry = e,
                                       !.amount = inflight.amount, !.via = "SettleHalf",
                                       !.ok = ok]
  /\ ledgerLoading' = FALSE
  /\ inflight' = NoRequest
  /\ UNCHANGED <<version, hookVars, browserVars, interceptVars, requestVars, uiVars, receiptVars>>

InitLedger ==
  /\ calls = {}
  /\ version = [r \in Receipts |-> 1]
  /\ maxRetries = DefaultMaxRetries
  /\ hasOnConflict = FALSE
  /\ HookIdle
  /\ access_token = "abc"
  /\ href = "/"
  /\ hasWindow = TRUE
  /\ ierror = Null
  /\ ipc = "idle"
  /\ rejection = Null
  /\ RequestIdle
  /\ ReceiptsIdle
  /\ LedgerIdle
  /\ UiIdle

NextLedger ==
  \/ \E r \in LedgerReceipts, p \in {"ours", "theirs"} :
       \E e \in 1..version[r] : PatchReceipt(r, e, p)
  \/ \E r \in LedgerReceipts, b \in Batches, commit \in BOOLEAN :
       finalizeReceipt(r, b, commit)
  \/ \E r \in LedgerReceipts : unfinalizeReceipt(r)
  \/ \E e \in EntryIds, a \in (-1)..(MaxAmount + 1) : settleLedgerEntry(e, a)
  \/ \E r \in LedgerReceipts : handleGetLedgerByReceipt(r)
  \/ GetLedgerResponse
  \/ \E r \in LedgerReceipts : handleDeleteLedger(r)
  \/ \E refuse \in BOOLEAN : DeleteLedgerResponse(refuse)
  \/ \E e \in EntryIds : handleSettleEntry(e)
  \/ \E pol \in NonIntegerPolicies : SettleResponse(pol)

SpecLedger == InitLedger /\ [][NextLedger]_vars

\* ------------------------------------------------- the hook run on its own
\* updateWithRetry with maxRetries n and callback flag cb, run alone on the
\* settlements S (frame i awaits S[i]): its outcome and its number of updateFn
\* invocations.
RECURSIVE SoloRun(_, _, _, _)
SoloRun(n, cb, S, i) ==
  IF ~(0 < n) THEN [out |-> Rejected(MaxRetriesError(n)), attempts |-> i - 1]
  ELSE IF i > Len(S) THEN [out |-> Pending, attempts |-> i]
  ELSE IF S[i].state = "fulfilled" THEN [out |-> S[i], attempts |-> i]
  ELSE IF IsConflict(S[i].err) /\ 0 < n - 1 /\ (i > 1 \/ cb)
       THEN SoloRun(n, cb, S, i + 1)
       ELSE [out |-> Rejected(Normalise(S[i].err)), attempts |-> i]

IsInvocation(e) == e \in {"updateFn:mutator", "updateFn:refetcher"}

\* Number of updateFn() invocations call c has made.
Attempts(c) == Len(SelectSeq(trace[c], IsInvocation))

AllConflicts(S) == \A i \in 1..Len(S) : S[i].state = "rejected" /\ IsConflict(S[i].err)

\* ------------------------------------------------------------ user balance
\* What is still to pay on an entry.
Outstanding(en) == en.amount_cents - en.settled_amount_cents

RECURSIVE SumOutstanding(_)
SumOutstanding(S) ==
  IF S = {} THEN 0
  ELSE LET x == CHOOSE y \in S : TRUE
       IN Outstanding(entries[x]) + SumOutstanding(S \ {x})

DebtorEntries(u) == {x \in EntryIds : Exists(entries[x]) /\ entries[x].debtor_id = u}
CreditorEntries(u) == {x \in EntryIds : Exists(entries[x]) /\ entries[x].creditor_id = u}

\* Mutant of NetCents: owes - is_owed.
NetCentsOwesMinusIsOwed(owes, is_owed) == owes - is_owed

NetCents(owes, is_owed) == is_owed - owes

\* balanceFor(user_id): a fold over all entries that reference the user.
\* user_id is the id the balance was asked for (the path parameter).
BalanceFor(u) ==
  [user_id |-> u,
   owes_cents |-> SumOutstanding(DebtorEntries(u)),
   is_owed_cents |-> SumOutstanding(CreditorEntries(u)),
   net_cents |-> NetCents(SumOutstanding(DebtorEntries(u)),
                          SumOutstanding(CreditorEntries(u)))]

\* The balance card: background, colour, sign and caption all test net_cents > 0.
BalanceCaption(net) ==
  IF net > 0 THEN "Net creditor (others owe you)" ELSE "Net debtor (you owe others)"
BalanceColour(net) == IF net > 0 THEN "#4caf50" ELSE "#f44336"
BalanceSign(net) == IF net > 0 THEN "+" ELSE ""

\* The user ids typed into the form: a user, or nothing.
UserIdInputs == Users \cup {""}

\* handleGetUserBalance up to its await (or its early return on an empty id).
handleGetUserBalance(u) ==
  /\ ~ledgerLoading
  /\ IF u = ""
     THEN /\ ledgerError' = "Please enter a user ID"
          /\ UNCHANGED <<ledgerLoading, inflight>>
     ELSE /\ ledgerLoading' = TRUE
          /\ ledgerError' = "none"
          /\ inflight' = [NoRequest EXCEPT !.op = "getBalance", !.user = u]
  /\ UNCHANGED <<version, hookVars, browserVars, interceptVars, requestVars, uiVars,
                 receiptVars, entries, shown, lastCall>>

\* GET /ledger/user/{id}/balance answers or fails; the rest of handleGetUserBalance.
GetBalanceResponse(fail) ==
  /\ inflight.op = "getBalance"
  /\ balance' = IF fail THEN balance ELSE BalanceFor(inflight.user)
  /\ ledgerError' = IF fail THEN "Failed to fetch balance" ELSE ledgerError
  /\ ledgerLoading' = FALSE
  /\ inflight' = NoRequest
  /\ UNCHANGED <<version, hookVars, browserVars, interceptVars, requestVars, splitVars,
                 authVars, receiptVars, entries, shown, lastCall>>

\* The ledgers the store can hold: per receipt a generated batch, each entry
\* settled up to its amount; a receipt with entries is finalized.
SettledUpTo(b) == {s \in [Pairs -> 0..MaxAmount] : \A pr \in Pairs : s[pr] <= b[pr]}
LedgerOf(b, s) ==
  [x \in EntryIds |->
     IF b[x[1]][x[2]] > 0
     THEN [NewEntry(x[1], x[2], b[x[1]][x[2]]) EXCEPT
             !.settled_amount_cents = s[x[1]][x[2]],
             !.status = StatusOf(s[x[1]][x[2]], b[x[1]][x[2]])]
     ELSE NoEntry]

InitBalance ==
  /\ calls = {}
  /\ maxRetries = DefaultMaxRetries
  /\ hasOnConflict = FALSE
  /\ HookIdle
  /\ access_token = "abc"
  /\ href = "/"
  /\ hasWindow = TRUE
  /\ ierror = Null
  /\ ipc = "idle"
  /\ rejection = Null
  /\ RequestIdle
  /\ UiIdle
  /\ content = [r \in Receipts |-> "initial"]
  /\ \E b \in [Receipts -> Batches] :
       \E s \in [Receipts -> [Pairs -> 0..MaxAmount]] :
         /\ \A r \in Receipts : s[r] \in SettledUpTo(b[r])
         /\ entries = LedgerOf(b, s)
         /\ status = [r \in Receipts |->
                        IF b[r] = NoBatch THEN "draft" ELSE "finalized"]
         /\ version = [r \in Receipts |-> IF b[r] = NoBatch THEN 1 ELSE 2]
  /\ shown = [e \in EntryIds |-> NoEntry]
  /\ ledgerLoading = FALSE
  /\ ledgerError = "none"
  /\ inflight = NoRequest
  /\ lastCall = NoCall

NextBalance ==
  \/ \E u \in UserIdInputs : handleGetUserBalance(u)
  \/ \E fail \in BOOLEAN : GetBalanceResponse(fail)

SpecBalance == InitBalance /\ [][NextBalance]_vars

\* --------------------------------------------------------- ReceiptSplitter
\* The group of the fixtures; a stored split may name someone who has left it.
Emails == {"alice@test.com", "bob@test.com", "charlie@test.com"}
MemberSets == {Emails, Emails \ {"charlie@test.com"}}

\* The line items of the fixture receipt: index -> total_price, in cents
\* (18.50, 12.00, 8.00).
LineItems == (0 :> 1850) @@ (1 :> 1200) @@ (2 :> 800)
ItemIndexes == DOMAIN LineItems
\* item.index.toString()
Key(i) == IF i = 0 THEN "0" ELSE IF i = 1 THEN "1" ELSE "2"

\* receipt.split_details as the server can send it: none, the split of the
\* fixture, and a map that holds an empty list.
SplitDetails ==
  { <<>>,
    [k \in {"0", "1", "2"} |->
       IF k = "0" THEN <<"alice@test.com", "bob@test.com">>
       ELSE IF k = "1" THEN <<"alice@test.com">>
       ELSE <<"alice@test.com", "bob@test.com", "charlie@test.com">>],
    [k \in {"0", "1"} |-> IF k = "0" THEN <<"alice@test.com">> ELSE <<>>] }

Range(f) == {f[k] : k \in DOMAIN f}

\* splitMap[key] || []
AssigneesIn(sm, i) == IF Key(i) \in DOMAIN sm THEN sm[Key(i)] ELSE <<>>
Assignees(i) == AssigneesIn(splitMap, i)

\* Amounts are kept exactly, as multiples of 1/Scale of a cent: every quotient
\* total_price / assignees.length with at most Cardinality(Emails) assignees
\* is such a multiple.
RECURSIVE Factorial(_)
Factorial(n) == IF n <= 1 THEN 1 ELSE n * Factorial(n - 1)
Scale == Factorial(Cardinality(Emails))

\* const splitPrice = item.total_price / assignees.length
SplitPrice(i) == (LineItems[i] * Scale) \div Len(Assignees(i))

\* The additions memberTotals[email] += splitPrice that reach member m.
Slots(I, m) ==
  {sl \in I \X (1..Cardinality(Emails)) :
     /\ sl[2] <= Len(Assignees(sl[1]))
     /\ Assignees(sl[1])[sl[2]] = m}

RECURSIVE SumSplitPrice(_)
SumSplitPrice(S) ==
  IF S = {} THEN 0
  ELSE LET sl == CHOOSE x \in S : TRUE
       IN SplitPrice(sl[1]) + SumSplitPrice(S \ {sl})

\* memberTotals[m] when only the items of I are walked; an email that is not a
\* member has no total, and the shares given to it are skipped.
MemberTotalOver(I, m) == IF m \in members THEN SumSplitPrice(Slots(I, m)) ELSE 0
MemberTotal(m) == MemberTotalOver(ItemIndexes, m)

\* toFixed(2): the nearest cent. (No total of these items lies halfway.)
ToFixed2(t) == (t + Scale \div 2) \div Scale
ShownTotal(m) == ToFixed2(MemberTotal(m))

\* Mutant of UnassignedBadge: only a missing key is flagged.
UnassignedBadgeMissingKey(i) == Key(i) \notin DOMAIN splitMap

\* {assignees.length === 0 && <span>Unassigned</span>}
UnassignedBadge(i) == Len(Assignees(i)) = 0

toggleItemSelection(i) ==
  /\ selectedItems' = IF i \in selectedItems THEN selectedItems \ {i}
                      ELSE selectedItems \cup {i}
  /\ UNCHANGED <<version, hookVars, browserVars, interceptVars, requestVars, balance,
                 splitMap, members, authVars, receiptVars, ledgerVars>>

\* The list assignToMember leaves for a selected item.
Toggled(list, email) ==
  IF email \in Range(list) THEN SelectSeq(list, LAMBDA e : e # email)
  ELSE Append(list, email)

\* Mutant of NextSplitMap: a list that becomes empty keeps its key.
NextSplitMapKeepsEmptyKeys(email) ==
  LET sel == {Key(i) : i \in selectedItems}
  IN [k \in DOMAIN splitMap \cup sel |->
        IF k \in sel
        THEN Toggled(IF k \in DOMAIN splitMap THEN splitMap[k] ELSE <<>>, email)
        ELSE splitMap[k]]

\* nextSplitMap once the forEach over selectedItems is done.
NextSplitMap(email) ==
  LET sel == {Key(i) : i \in selectedItems}
      cur(k) == IF k \in DOMAIN splitMap THEN splitMap[k] ELSE <<>>
      gone == {k \in sel : Len(Toggled(cur(k), email)) = 0}
  IN [k \in (DOMAIN splitMap \cup sel) \ gone |->
        IF k \in sel THEN Toggled(cur(k), email) ELSE splitMap[k]]

assignToMember(email) ==
  /\ email \in members
  /\ splitMap' = IF selectedItems = {} THEN splitMap ELSE NextSplitMap(email)
  /\ UNCHANGED <<version, hookVars, browserVars, interceptVars, requestVars, balance,
                 selectedItems, members, authVars, receiptVars, ledgerVars>>

InitSplitter ==
  /\ calls = {}
  /\ version = [r \in Receipts |-> 1]
  /\ maxRetries = DefaultMaxRetries
  /\ hasOnConflict = FALSE
  /\ HookIdle
  /\ access_token = "abc"
  /\ href = "/"
  /\ hasWindow = TRUE
  /\ ierror = Null
  /\ ipc = "idle"
  /\ rejection = Null
  /\ RequestIdle
  /\ ReceiptsIdle
  /\ LedgerIdle
  /\ BalanceIdle
  /\ AuthIdle
  /\ splitMap \in SplitDetails
  /\ selectedItems = {}
  /\ members \in MemberSets

NextSplitter ==
  \/ \E i \in ItemIndexes : toggleItemSelection(i)
  \/ \E email \in Emails : assignToMember(email)

SpecSplitter == InitSplitter /\ [][NextSplitter]_vars

\* ------------------------------------------------------------ AuthProvider
\* Time is counted in quarters of an hour.
Timeout(rememberMe) == IF rememberMe THEN REMEMBER_ME_TIMEOUT ELSE SESSION_TIMEOUT

\* clearTimeout(id): a null or unknown handle clears nothing.
ClearTimeout(ts, id) == {t \in ts : t.id # id}

\* scheduleSessionTimeout as the caller's closure sees it: the handle it clears
\* is the `sessionTimeout` of the render the closure was made in.
TimersAfterSchedule(seen, timeout) ==
  ClearTimeout(timers, seen) \cup {[id |-> nextTimer, due |-> now + timeout]}

\* login(userData, rememberMe), called while nobody is logged in. setUser and
\* setSessionTimeout are applied in one render; the activity effect then binds
\* handleActivity to that render's scheduleSessionTimeout.
login(rememberMe) ==
  /\ hasWindow
  /\ user = "none"
  /\ nextTimer <= MaxTimers
  /\ user' = "u1"
  /\ remember_me' = IF rememberMe THEN "true" ELSE "false"
  /\ last_activity' = now
  /\ timers' = TimersAfterSchedule(sessionTimeout, Timeout(rememberMe))
  /\ sessionTimeout' = nextTimer
  /\ boundTimeout' = nextTimer
  /\ nextTimer' = nextTimer + 1
  /\ authEvent' = [NoAuthEvent EXCEPT !.op = "login"]
  /\ UNCHANGED <<version, hookVars, browserVars, interceptVars, requestVars, balance,
                 splitVars, now, receiptVars, ledgerVars>>

\* A mousedown, keydown, scroll or touchstart while a user is logged in. The
\* listener is the handleActivity bound when `user` last changed.
handleActivity ==
  /\ hasWindow
  /\ user # "none"
  /\ nextTimer <= MaxTimers
  /\ last_activity' = now
  /\ timers' = TimersAfterSchedule(boundTimeout, Timeout(remember_me = "true"))
  /\ sessionTimeout' = nextTimer
  /\ nextTimer' = nextTimer + 1
  /\ authEvent' = [NoAuthEvent EXCEPT !.op = "activity"]
  /\ UNCHANGED <<version, hookVars, browserVars, interceptVars, requestVars, balance,
                 splitVars, user, remember_me, boundTimeout, now, receiptVars, ledgerVars>>

\* clearSession: the user and the stored session are dropped and the browser
\* goes to /login; the page that is left takes its timers with it.
clearSession(op) ==
  /\ hasWindow
  /\ user' = "none"
  /\ remember_me' = "none"
  /\ last_activity' = NoTime
  /\ access_token' = "none"
  /\ href' = "/login"
  /\ timers' = {}
  /\ sessionTimeout' = NoTimer
  /\ boundTimeout' = NoTimer
  /\ authEvent' = [op |-> op, idle |-> now - last_activity,
                   timeout |-> Timeout(remember_me = "true"),
                   loggedIn |-> user # "none"]
  /\ UNCHANGED <<version, hookVars, hasWindow, interceptVars, requestVars, balance,
                 splitVars, nextTimer, now, receiptVars, ledgerVars>>

\* A pending timer is due: its callback runs clearSession.
SessionTimerFires ==
  \E t \in timers :
    /\ t.due <= now
    /\ clearSession("timeout")

logout ==
  /\ user # "none"
  /\ clearSession("logout")

\* The page is loaded again: initSession restores the stored session when it
\* has not expired and clears it otherwise. The timers of the old page are gone.
initSession ==
  /\ hasWindow
  /\ user # "none"
  /\ nextTimer <= MaxTimers
  /\ IF now - last_activity < Timeout(remember_me = "true")
     THEN /\ timers' = {[id |-> nextTimer,
                         due |-> last_activity + Timeout(remember_me = "true")]}
          /\ sessionTimeout' = nextTimer
          /\ boundTimeout' = nextTimer
          /\ nextTimer' = nextTimer + 1
          /\ authEvent' = [NoAuthEvent EXCEPT !.op = "init"]
          /\ UNCHANGED <<version, hookVars, browserVars, interceptVars, requestVars,
                         balance, splitVars, user, remember_me, last_activity, now,
                         receiptVars, ledgerVars>>
     ELSE clearSession("expired")

\* Time passes; a timer that is due fires before it does.
Tick ==
  /\ now < MaxTime
  /\ \A t \in timers : t.due > now
  /\ now' = now + 1
  /\ UNCHANGED <<version, hookVars, browserVars, interceptVars, requestVars, balance,
                 splitVars, user, remember_me, last_activity, timers, sessionTimeout,
                 boundTimeout, nextTimer, authEvent, receiptVars, ledgerVars>>

InitAuth ==
  /\ calls = {}
  /\ version = [r \in Receipts |-> 1]
  /\ maxRetries = DefaultMaxRetries
  /\ hasOnConflict = FALSE
  /\ HookIdle
  /\ access_token = "none"
  /\ href = "/login"
  /\ hasWindow = TRUE
  /\ ierror = Null
  /\ ipc = "idle"
  /\ rejection = Null
  /\ RequestIdle
  /\ ReceiptsIdle
  /\ LedgerIdle
  /\ UiIdle

NextAuth ==
  \/ \E rememberMe \in BOOLEAN : login(rememberMe)
  \/ handleActivity
  \/ SessionTimerFires
  \/ logout
  \/ initSession
  \/ Tick

SpecAuth == InitAuth /\ [][NextAuth]_vars

\* -------------------------------------------------------------- properties

\* C1: when the update fails with a version conflict and retries remain, the
\* hook refetches, resubmits the update bound to the refetched version, and the
\* call succeeds with the result of the resubmitted update; the store's version
\* is incremented exactly once by the whole call.
C1_RefetchThenResubmit ==
  \A c \in calls :
    ( /\ pc[c] = "done"
      /\ maxRetries >= 2
      /\ givenCb[c]
      /\ Len(obs[c]) >= 2
      /\ obs[c][1].state = "rejected" /\ IsConflict(obs[c][1].err)
      /\ obs[c][1].err.previousVersion = boundVersion[c]
      /\ obs[c][2].state = "fulfilled" )
    => ( /\ outcome[c].state = "fulfilled"
         /\ outcome[c].via = "PATCH"
         /\ accepted[c] = 1 )

\* C2: when every attempt of a call ends in a version conflict and
\* maxRetries >= 1, the call fails with the 'Max retries exceeded' error, never
\* with the raw conflict error.
C2_ExhaustedBudgetIsTerminalError ==
  \A c \in calls :
    ( /\ pc[c] = "done"
      /\ maxRetries >= 1
      /\ Len(obs[c]) >= 1
      /\ AllConflicts(obs[c]) )
    => ( /\ outcome[c].state = "rejected"
         /\ outcome[c].err = MaxRetriesError(maxRetries) )

\* C3: the number of updateFn invocations made on behalf of one call never
\* exceeds maxRetries plus the initial attempt, even when every invocation
\* reports a conflict.
C3_AttemptsBounded ==
  \A c \in calls : Attempts(c) <= maxRetries + 1

\* C4: if the first invocation of the mutator succeeds, the call returns exactly
\* that result; the mutator was invoked once, the refetcher and onConflict never,
\* and no delay was scheduled.
C4_FirstSuccessReturnsAtOnce ==
  \A c \in calls :
    (Len(trace[c]) >= 2 /\ trace[c][2] = "settled:ok")
    => ( /\ trace[c] = <<"updateFn:mutator", "settled:ok">>
         /\ pc[c] \in {"settled", "done"}
         /\ pc[c] = "done" => outcome[c] = obs[c][1] )

C4_Witness ==
  \E c \in calls :
    /\ pc[c] = "done"
    /\ trace[c] = <<"updateFn:mutator", "settled:ok">>
    /\ outcome[c].state = "fulfilled"
    /\ outcome[c].via = "PATCH"

\* C5: a non-conflict error from the mutator or the refetcher ends the call: no
\* invocation, observer call or delay follows it, and the caller gets an error
\* that is not the 'Max retries exceeded' error.
C5_NonConflictErrorEndsCall ==
  \A c \in calls :
    \A i \in 1..Len(trace[c]) :
      trace[c][i] = "settled:error"
      => ( /\ i = Len(trace[c])
           /\ pc[c] \in {"settled", "unwinding", "done"}
           /\ pc[c] = "done" =>
                ( /\ outcome[c].state = "rejected"
                  /\ outcome[c].err # MaxRetriesError(maxRetries) ) )

C5_Witness ==
  \E c \in calls :
    /\ pc[c] = "done"
    /\ updateFn[c] = "refetcher"
    /\ trace[c][Len(trace[c])] = "settled:error"
    /\ outcome[c].state = "rejected"

\* C6: a non-conflict failure reaches the caller unmodified: the call rejects
\* with the very value updateFn failed with, Error instance or not.
C6_ErrorReachesCallerUnmodified ==
  \A c \in calls :
    ( /\ pc[c] = "done"
      /\ settled[c].state = "rejected"
      /\ ~IsConflict(settled[c].err) )
    => outcome[c] = Rejected(settled[c].err)

\* C7: for each conflict that triggers a retry the order is: onConflict, then
\* the refetch, then the delay, then the retried update; the refetch is never
\* after the delay and the timer is followed by the retried update.
C7_ObserverRefetchDelayRetry ==
  \A c \in calls :
    \A j \in 1..Len(trace[c]) :
      /\ trace[c][j] = "setTimeout" =>
           \E k \in 1..(j - 1) :
             /\ trace[c][k] = "updateFn:refetcher"
             /\ \E i \in 1..(k - 1) :
                  /\ trace[c][i] = "settled:conflict"
                  /\ \A m \in (i + 1)..(j - 1) : trace[c][m] # "settled:conflict"
      /\ (trace[c][j] = "timeout" /\ j < Len(trace[c])) =>
           trace[c][j + 1] = "updateFn:mutator"

\* C8: two overlapping calls for different receipts do not interfere: each
\* call's outcome and number of attempts are those of the hook run alone on the
\* settlements that call itself observed.
C8_CallsDoNotInterfere ==
  (calls = Calls /\ receiptId["a"] # receiptId["b"]) =>
    \A c \in calls :
      pc[c] = "done" =>
        LET solo == SoloRun(maxRetries, givenCb[c], obs[c], 1)
        IN /\ outcome[c] = solo.out
           /\ Attempts(c) = solo.attempts

C8_Witness ==
  /\ calls = Calls
  /\ receiptId["a"] # receiptId["b"]
  /\ pc["a"] = "delay"
  /\ retries["a"] = 1
  /\ pc["b"] = "done"
  /\ Len(obs["b"]) = 2
  /\ IsConflict(obs["b"][1].err)
  /\ outcome["b"].state = "fulfilled"

\* C9: once the owning component is torn down while a call waits between
\* attempts, the call makes no further invocation and updates no hook state.
C9_TeardownCancelsDelay ==
  [][\A c \in Calls :
       (~mounted /\ pc[c] = "delay")
       => (trace'[c] = trace[c] /\ loading' = loading /\ error' = error)]_vars

\* C10: a 409 whose body carries previousVersion and currentVersion is rejected
\* as a ReceiptVersionConflictError carrying exactly those two values, also when
\* either is 0.
C10_ConflictFrom409 ==
  ( /\ ipc = "rejected"
    /\ ierror.status = Status409
    /\ ierror.previousVersion # Undefined
    /\ ierror.currentVersion # Undefined )
  => ( /\ IsConflict(rejection)
       /\ rejection.previousVersion = ierror.previousVersion
       /\ rejection.currentVersion = ierror.currentVersion )

C10_Witness ==
  /\ ipc = "rejected"
  /\ ierror.status = Status409
  /\ ierror.previousVersion = 0
  /\ ierror.currentVersion = 1
  /\ IsConflict(rejection)
  /\ rejection.previousVersion = 0

\* C11: only a 409 with a version payload becomes a conflict error; a 409 whose
\* body lacks previousVersion or currentVersion, and every other status, is
\* rejected with the original error object itself.
C11_OtherErrorsPassThrough ==
  ipc = "rejected" =>
    /\ IsConflict(rejection) =>
         (ierror.status = Status409 /\ ierror.previousVersion # Undefined
                                    /\ ierror.currentVersion # Undefined)
    /\ ( \/ ierror.status # Status409
         \/ ierror.previousVersion = Undefined
         \/ ierror.currentVersion = Undefined ) => rejection = ierror

C11_Witness ==
  /\ ipc = "rejected"
  /\ ierror.status = Status409
  /\ ierror.previousVersion = Undefined
  /\ ierror.currentVersion = 1
  /\ rejection = ierror

\* C12 as stated: on any 401 the handler removes access_token, sets the location
\* to /login and rejects with the original error, so no access_token remains.
C12_Any401ClearsAndRedirects ==
  (ipc = "rejected" /\ ierror.status = Status401) =>
    /\ access_token = "none"
    /\ href = "/login"
    /\ rejection = ierror

\* C12 amended: a 401 is always rejected with the original error; the token is
\* removed and the location set to /login when a window exists, and neither is
\* touched when window is undefined.
C12_401ClearsAndRedirectsInBrowser ==
  [][(ipc = "pending" /\ ipc' = "rejected" /\ ierror.status = Status401) =>
       /\ rejection' = ierror
       /\ ~IsConflict(rejection')
       /\ IF hasWindow
          THEN access_token' = "none" /\ href' = "/login"
          ELSE access_token' = access_token /\ href' = href]_vars

C12_Witness ==
  /\ ipc = "rejected"
  /\ ierror.status = Status401
  /\ hasWindow
  /\ access_token = "none"
  /\ href = "/login"
  /\ rejection = ierror

C14_VersionCountsAcceptedUpdates ==
  /\ \A r \in Receipts : version[r] = 1
  /\ [][\A r \in Receipts :
          /\ version'[r] >= version[r]
          /\ (lastCall'.tick # lastCall.tick /\ lastCall'.op = "updateReceipt"
              /\ lastCall'.receipt = r)
             => version'[r] = (IF lastCall'.ok THEN version[r] + 1 ELSE version[r])]_vars

C14_Witness ==
  /\ lastCall.op = "updateReceipt"
  /\ lastCall.ok
  /\ lastCall.expected = 2
  /\ version[lastCall.receipt] = 3
  /\ status[lastCall.receipt] = "draft"

\* C15: of two overlapping updateReceipt calls that carry the same version of
\* the same receipt at most one is accepted; the store rejects the other with a
\* conflict naming the version it sent and the stored version, and that
\* rejection changes neither the stored version nor the stored data.
C15_AtMostOneWinner ==
  /\ []((calls = Calls /\ receiptId["a"] = receiptId["b"]
         /\ boundVersion["a"] = boundVersion["b"])
        => ~(accepted["a"] >= 1 /\ accepted["b"] >= 1))
  /\ [][\A c \in calls :
          ( /\ pc[c] = "awaitUpdate"
            /\ updateFn[c] = "mutator"
            /\ settled'[c].state = "rejected"
            /\ \A f \in Faults : settled'[c] # Rejected(rejected(f)) )
          => /\ settled'[c].err =
                  ReceiptVersionConflictError(boundVersion[c], version[receiptId[c]])
             /\ boundVersion[c] # version[receiptId[c]]
             /\ version' = version
             /\ content' = content]_vars

C15_Witness ==
  /\ calls = Calls
  /\ receiptId["a"] = receiptId["b"]
  /\ boundVersion["a"] = 1
  /\ boundVersion["b"] = 1
  /\ accepted["a"] = 1
  /\ accepted["b"] = 0
  /\ pc["b"] = "settled"
  /\ settled["b"] = Rejected(ReceiptVersionConflictError(1, 2))
  /\ content[receiptId["a"]] = "ours"

\* C16: edits are accepted only while the receipt is a draft: an updateReceipt
\* against a finalized receipt is rejected and changes nothing, and no step
\* changes the data of a receipt that is finalized.
C16_EditsOnlyWhileDraft ==
  [][/\ (lastCall'.tick # lastCall.tick /\ lastCall'.op = "updateReceipt")
        => /\ lastCall'.ok => status[lastCall'.receipt] = "draft"
           /\ status[lastCall'.receipt] = "finalized"
              => /\ ~lastCall'.ok
                 /\ version' = version
                 /\ content' = content
                 /\ status' = status
                 /\ entries' = entries
     /\ \A r \in Receipts :
          status[r] = "finalized" => content'[r] = content[r]]_vars

C16_Witness ==
  /\ lastCall.op = "updateReceipt"
  /\ ~lastCall.ok
  /\ status[lastCall.receipt] = "finalized"
  /\ lastCall.expected = version[lastCall.receipt]
  /\ content[lastCall.receipt] = "ours"

\* C17: settleLedgerEntry(entry, amount) on an existing entry fails and leaves
\* the entry as it was when amount <= 0 or settled_amount_cents + amount >
\* amount_cents; otherwise it succeeds, adds amount to settled_amount_cents and
\* leaves amount_cents as it was.
C17_SettleAddsOrFails ==
  [][( /\ lastCall'.tick # lastCall.tick
       /\ lastCall'.op = "settleLedgerEntry"
       /\ IsInteger(lastCall'.amount)
       /\ Exists(entries[lastCall'.entry]) )
     => LET en == entries[lastCall'.entry]
            after == entries'[lastCall'.entry]
            a == Floor(lastCall'.amount)
        IN IF a <= 0 \/ en.settled_amount_cents + a > en.amount_cents
           THEN ~lastCall'.ok /\ after = en
           ELSE /\ lastCall'.ok
                /\ after.settled_amount_cents = en.settled_amount_cents + a
                /\ after.amount_cents = en.amount_cents]_vars

C17_Witness ==
  /\ lastCall.op = "settleLedgerEntry"
  /\ lastCall.via = "api"
  /\ lastCall.ok
  /\ lastCall.amount = Whole(1)
  /\ entries[lastCall.entry].amount_cents = 2
  /\ entries[lastCall.entry].settled_amount_cents = 2

\* C18: every ledger entry, in the store and in the component's list, has
\* 0 <= settled_amount_cents <= amount_cents, and its status is settled iff the
\* two are equal, pending iff settled_amount_cents is 0, partially_settled
\* otherwise.
C18_EntryInvariant ==
  \A x \in EntryIds : \A en \in {entries[x], shown[x]} :
    Exists(en) =>
      /\ 0 <= en.settled_amount_cents
      /\ en.settled_amount_cents <= en.amount_cents
      /\ en.status = "settled" <=> en.settled_amount_cents = en.amount_cents
      /\ en.status = "pending" <=> en.settled_amount_cents = 0
      /\ en.status = "partially_settled" <=>
           (0 < en.settled_amount_cents /\ en.settled_amount_cents < en.amount_cents)

C18_Witness ==
  \E x \in EntryIds :
    /\ entries[x].amount_cents = 2
    /\ entries[x].settled_amount_cents = 1
    /\ entries[x].status = "partially_settled"
    /\ shown[x] = entries[x]
    /\ lastCall.via = "SettleHalf"
    /\ lastCall.ok

\* C19: Settle Half moves a pending entry to partially_settled, a second
\* Settle Half right after it moves the entry to settled, for every entry
\* amount; and once settled_amount_cents equals amount_cents every settle call
\* fails and leaves the entry as it was.
C19_SettleHalfTwiceSettles ==
  [][( /\ lastCall'.tick # lastCall.tick
       /\ lastCall'.op = "settleLedgerEntry"
       /\ Exists(entries[lastCall'.entry]) )
     => LET x == lastCall'.entry
            en == entries[x]
            after == entries'[x]
            half == lastCall'.via = "SettleHalf"
                    /\ lastCall'.amount = SettleHalfAmount(en)
        IN /\ (half /\ en.status = "pending") => after.status = "partially_settled"
           /\ ( /\ half
                /\ en.status = "partially_settled"
                /\ lastCall.via = "SettleHalf" /\ lastCall.entry = x /\ lastCall.ok
                /\ lastCall.amount = lastCall'.amount
                /\ 2 * en.settled_amount_cents <= en.amount_cents + 1 )
              => after.status = "settled"
           /\ en.status = "settled" => (~lastCall'.ok /\ after = en)]_vars

\* C20: the amount_cents of every settle request the component issues is a
\* positive integer.
C20_SettleAmountIsPositiveInteger ==
  inflight.op = "settle" =>
    /\ IsInteger(SettlePayload(inflight.amount))
    /\ IsPositive(SettlePayload(inflight.amount))

C27_ZeroBalanceIsNeutral ==
  balance # NoBalance
  => /\ balance.net_cents > 0
          => /\ BalanceCaption(balance.net_cents) = "Net creditor (others owe you)"
             /\ BalanceColour(balance.net_cents) = "#4caf50"
     /\ balance.net_cents < 0
          => /\ BalanceCaption(balance.net_cents) = "Net debtor (you owe others)"
             /\ BalanceColour(balance.net_cents) = "#f44336"
     /\ balance.net_cents = 0
          => /\ BalanceCaption(balance.net_cents) # "Net creditor (others owe you)"
             /\ BalanceCaption(balance.net_cents) # "Net debtor (you owe others)"
             /\ BalanceColour(balance.net_cents) \notin {"#4caf50", "#f44336"}

\* C24: for every item with assignees, the shares the allocation gives the
\* assignees are amounts of cents that add up to exactly the item's price: no
\* cent is lost or created, whatever the number of assignees.
C24_SharesSumToThePrice ==
  \A i \in ItemIndexes :
    Len(Assignees(i)) > 0
    => /\ SplitPrice(i) % Scale = 0
       /\ Len(Assignees(i)) * ToFixed2(SplitPrice(i)) = LineItems[i]

\* C25: an item whose assignee list is empty or missing adds nothing to any
\* member's total, and the 'Unassigned' badge is on an item exactly when it has
\* no assignees.
C25_UnassignedItemsCountForNobody ==
  \A i \in ItemIndexes :
    /\ UnassignedBadge(i)
         <=> (Key(i) \notin DOMAIN splitMap \/ splitMap[Key(i)] = <<>>)
    /\ (Key(i) \notin DOMAIN splitMap \/ splitMap[Key(i)] = <<>>)
         => \A m \in Emails :
              MemberTotalOver(ItemIndexes, m) = MemberTotalOver(ItemIndexes \ {i}, m)

C25_Witness ==
  /\ "1" \in DOMAIN splitMap
  /\ splitMap["1"] = <<>>
  /\ "2" \notin DOMAIN splitMap
  /\ "0" \in DOMAIN splitMap
  /\ splitMap["0"] = <<"alice@test.com", "bob@test.com">>
  /\ ShownTotal("alice@test.com") = 925
  /\ UnassignedBadge(1) /\ UnassignedBadge(2) /\ ~UnassignedBadge(0)

\* C26: the total shown for a member is the sum, over the items whose list
\* holds the member, of price / number of assignees (to the cent), and the
\* totals shown for all members add up to the prices of the assigned items.
C26_TotalsAddUpToAssignedPrices ==
  LET withMember(m) == {i \in ItemIndexes : m \in Range(Assignees(i))}
      quotient(i) == (LineItems[i] * Scale) \div Len(Assignees(i))
      RECURSIVE sumQuotients(_)
      sumQuotients(I) == IF I = {} THEN 0
                         ELSE LET i == CHOOSE j \in I : TRUE
                              IN quotient(i) + sumQuotients(I \ {i})
      RECURSIVE sumShown(_)
      sumShown(M) == IF M = {} THEN 0
                     ELSE LET m == CHOOSE n \in M : TRUE
                          IN ShownTotal(m) + sumShown(M \ {m})
      RECURSIVE sumPrices(_)
      sumPrices(I) == IF I = {} THEN 0
                      ELSE LET i == CHOOSE j \in I : TRUE
                           IN LineItems[i] + sumPrices(I \ {i})
  IN /\ \A m \in members : ShownTotal(m) = ToFixed2(sumQuotients(withMember(m)))
     /\ sumShown(members) = sumPrices({i \in ItemIndexes : Len(Assignees(i)) > 0})

\* C29: a step taken from a split map without empty lists and without
\* duplicates leaves such a map; assignToMember changes the lists of the
\* selected items only, and changes nothing when nothing is selected.
C29_SplitMapStaysWellFormed ==
  [][/\ (\A k \in DOMAIN splitMap :
           /\ splitMap[k] # <<>>
           /\ \A a, b \in DOMAIN splitMap[k] : splitMap[k][a] = splitMap[k][b] => a = b)
        => (\A k \in DOMAIN splitMap' :
              /\ splitMap'[k] # <<>>
              /\ \A a, b \in DOMAIN splitMap'[k] :
                   splitMap'[k][a] = splitMap'[k][b] => a = b)
     /\ \A i \in ItemIndexes \ selectedItems :
          /\ Key(i) \in DOMAIN splitMap' <=> Key(i) \in DOMAIN splitMap
          /\ AssigneesIn(splitMap', i) = AssigneesIn(splitMap, i)
     /\ selectedItems = {} => splitMap' = splitMap]_vars

C29_Witness ==
  /\ selectedItems = {1, 2}
  /\ "1" \notin DOMAIN splitMap
  /\ "0" \in DOMAIN splitMap
  /\ "2" \in DOMAIN splitMap
  /\ splitMap["0"] = <<"alice@test.com", "bob@test.com">>
  /\ splitMap["2"] = <<"charlie@test.com", "bob@test.com">>

\* C28: while the component is mounted, loading is true as long as a call on
\* the hook instance is awaiting its request or its retry delay, also when
\* another call on the same instance has just ended, and it is false once every
\* call made has resolved or rejected.
C28_LoadingWhileACallIsInFlight ==
  mounted
  => /\ (\E c \in calls : pc[c] \in {"awaitUpdate", "delay"}) => loading
     /\ ( /\ \A c \in calls : pc[c] \in {"idle", "done"}
          /\ \E c \in calls : pc[c] = "done" ) => ~loading

\* C30: every activity event postpones the expiry of the session: at most one
\* session timer is pending at any time, and a timer never clears a logged-in
\* session while the time since the latest activity is below the timeout that
\* applies (30 minutes, or 7 days with remember-me).
C30_ActivityPostponesExpiry ==
  /\ Cardinality(timers) <= 1
  /\ (authEvent.op = "timeout" /\ authEvent.loggedIn)
       => authEvent.idle >= authEvent.timeout

====
